---- MODULE Spec2Model ----
(***************************************************************************)
(* A model of the LS-8 emulator of cpu.py: the CPU object (ram, reg, pc,   *)
(* fl, sp), load() and the fetch-decode-execute loop of run(), one action  *)
(* per branch of the dispatch chain.  Python semantics are kept: integers  *)
(* are unbounded, a list index i of a list of length n is legal for        *)
(* -n <= i < n (a negative index counts from the end) and raises           *)
(* IndexError otherwise, and an exception leaves the assignments made      *)
(* before it in place.                                                     *)
(***************************************************************************)
EXTENDS Integers, Sequences, FiniteSets, TLC

\* ---------------------------------------------------------------- opcodes
HLT == 1
PRN == 71
LDI == 130
MUL == 162
ADD == 160
PUSH == 69
POP == 70
CALL == 80
IRET == 19
RET == 17
CMP == 167
JMP == 84
JEQ == 85
JNE == 86

\* the opcodes the dispatch chain of run() has a branch for
Handled == {HLT, JEQ, JNE, JMP, CMP, CALL, RET, PUSH, POP, LDI, MUL, ADD, PRN}

\* ---------------------------------------------------------- machine sizes
RamSize == 256
NumReg == 8
InitSP == 244

\* flag values written by alu(CMP)
FlagE == 1
FlagL == 4
FlagG == 2

\* ----------------------------------------------------------------- bounds
\* operand values are drawn from 0..MaxV and (255-MaxV)..255
MaxV == 2

Vals == (0 .. MaxV) \cup ((255 - MaxV) .. 255)

\* ------------------------------------------------- Python list indexing
\* lst[i] on a list of length n: legal iff -n <= i < n
IdxOK(i, n) == i >= -n /\ i < n

\* the cell lst[i] denotes: a negative index counts from the end
Idx(i, n) == IF i < 0 THEN i + n ELSE i

ram_read(r, MAR) == r[Idx(MAR, RamSize)]

ram_write(r, MAR, MDR) == [r EXCEPT ![Idx(MAR, RamSize)] = MDR]

reg_read(g, i) == g[Idx(i, NumReg)]

reg_write(g, i, v) == [g EXCEPT ![Idx(i, NumReg)] = v]

\* ------------------------------------------------------- print(): str(int)
DigitChar == <<"0", "1", "2", "3", "4", "5", "6", "7", "8", "9">>

RECURSIVE Digits(_)
Digits(n) == IF n < 10 THEN <<DigitChar[n + 1]>>
             ELSE Append(Digits(n \div 10), DigitChar[(n % 10) + 1])

\* the line print(n) writes, without its newline
Str(n) == IF n < 0 THEN <<"-">> \o Digits(0 - n) ELSE Digits(n)

\* ------------------------------------------------- program file and load()
\* a line of the program file is a sequence of "0"/"1" characters; <<>> is a
\* line that is blank once its comment is cut off
RECURSIVE Bin(_, _)
Bin(v, width) == IF width = 0 THEN <<>>
                 ELSE Append(Bin(v \div 2, width - 1), IF v % 2 = 1 THEN "1" ELSE "0")

\* int(val, 2)
RECURSIVE ParseBin(_)
ParseBin(val) == IF Len(val) = 0 THEN 0
                 ELSE 2 * ParseBin(SubSeq(val, 1, Len(val) - 1))
                      + (IF val[Len(val)] = "1" THEN 1 ELSE 0)

ZeroRam == [i \in 0 .. (RamSize - 1) |-> 0]

ZeroReg == [i \in 0 .. (NumReg - 1) |-> 0]

\* the lines load() does not skip
IsInstruction(val) == val # << >>

\* the loop of load(): the k-th line that is not blank is stored at address k - 1
LoadLines(r, lines) ==
    LET kept == SelectSeq(lines, IsInstruction) IN
    [address \in 0 .. (RamSize - 1) |->
        IF address < Len(kept) THEN ParseBin(kept[address + 1]) ELSE r[address]]

\* ------------------------------------------------------------------ state
VARIABLES
    ram,      \* self.ram: 256 cells
    reg,      \* self.reg: 8 registers
    pc,       \* self.pc
    fl,       \* self.fl
    sp,       \* self.sp
    out,      \* the lines print() has written, oldest first
    status,   \* "constructed", "running" (inside the loop of run()), "halted"
              \* (run() returned) or "error" (an exception left run())
    err,      \* the exception that ended the run, "none" otherwise
    acc,      \* history: the indices self.ram was indexed with, as given, in the last cycle
    last,     \* history: the last cycle (what it fetched, the state it started from)
    last2,    \* history: the cycle before the last
    done,     \* history: per opcode, the instructions that ran to their end
    loaded    \* history: the memory image load() left

vars == <<ram, reg, pc, fl, sp, out, status, err, acc, last, last2, done, loaded>>

\* the CPU object as one value, for the handlers below
Cur == [ram |-> ram, reg |-> reg, pc |-> pc, fl |-> fl, sp |-> sp, out |-> out,
        status |-> status, err |-> err, acc |-> acc]

\* an exception leaves run(): what was assigned before it stays
Raise(s, e) == [s EXCEPT !.status = "error", !.err = e]

NoIR == 0 - 1

NoCycle == [ir |-> NoIR, a |-> NoIR, b |-> NoIR, pc |-> 0, sp |-> InitSP, reg |-> ZeroReg,
            fl |-> 0, nextIR |-> NoIR, nextA |-> NoIR, taken |-> FALSE, ok |-> FALSE]

\* ------------------------------------------------------------------ fetch
\* IR, operand_a, operand_b = ram_read(pc), ram_read(pc + 1), ram_read(pc + 2)
FetchOK == IdxOK(pc, RamSize) /\ IdxOK(pc + 1, RamSize) /\ IdxOK(pc + 2, RamSize)

\* the indices the three reads used before the first one that raised
FetchAcc(p) == IF ~IdxOK(p, RamSize) THEN {}
               ELSE IF ~IdxOK(p + 1, RamSize) THEN {p}
               ELSE IF ~IdxOK(p + 2, RamSize) THEN {p, p + 1}
               ELSE {p, p + 1, p + 2}

IR == ram_read(ram, pc)

operand_a == ram_read(ram, pc + 1)

operand_b == ram_read(ram, pc + 2)

\* the CPU once the three reads are done
Fetched == [Cur EXCEPT !.acc = FetchAcc(pc)]

\* ---------------------------------------------------------------- the ALU
\* CMP that sets its bit in the old flags value instead of replacing it
CmpMerged(f, x, y) == IF x = y THEN (IF f % 2 = 1 THEN f ELSE f + FlagE)
                      ELSE IF x < y THEN (IF (f \div 4) % 2 = 1 THEN f ELSE f + FlagL)
                      ELSE (IF (f \div 2) % 2 = 1 THEN f ELSE f + FlagG)

\* the flags value CMP leaves, for register values x and y and old flags f
CmpFlags(f, x, y) == IF x = y THEN FlagE
                     ELSE IF x < y THEN FlagL
                     ELSE IF x > y THEN FlagG
                     ELSE f

AluAdd(x, y) == x + y

AluMul(x, y) == x * y

alu(s, op, reg_a, reg_b) ==
    IF op \notin {ADD, MUL, CMP} THEN Raise(s, "Unsupported ALU operation")
    ELSE IF ~IdxOK(reg_a, NumReg) \/ ~IdxOK(reg_b, NumReg) THEN Raise(s, "IndexError")
    ELSE IF op = ADD
        THEN [s EXCEPT !.reg = reg_write(s.reg, reg_a,
                                  AluAdd(reg_read(s.reg, reg_a), reg_read(s.reg, reg_b)))]
    ELSE IF op = MUL
        THEN [s EXCEPT !.reg = reg_write(s.reg, reg_a,
                                  AluMul(reg_read(s.reg, reg_a), reg_read(s.reg, reg_b)))]
    ELSE [s EXCEPT !.fl = CmpFlags(s.fl, reg_read(s.reg, reg_a), reg_read(s.reg, reg_b))]

\* pc += 2 whatever the length of the instruction
AdvanceByTwo(s, n) == IF s.status = "error" THEN s ELSE [s EXCEPT !.pc = s.pc + 2]

\* pc += n, unless the instruction raised
Advance(s, n) == IF s.status = "error" THEN s ELSE [s EXCEPT !.pc = s.pc + n]

\* ------------------------------------------------- the branches of run()
ExecHLT(s) == [s EXCEPT !.status = "halted"]

\* JNE that branches only once a compare has left Less-than or Greater-than
JneTakenAfterCompare(f) == f # FlagE /\ f # 0

JneTaken(f) == f # FlagE

\* JEQ that branches on any flag of the last compare
JeqTakenAnyFlag(f) == f # 0

JeqTaken(f) == f = FlagE

\* self.pc = self.reg[operand_a]
Jump(s, a) == IF ~IdxOK(a, NumReg) THEN Raise(s, "IndexError")
              ELSE [s EXCEPT !.pc = reg_read(s.reg, a)]

ExecJEQ(s, a) == IF JeqTaken(s.fl) THEN Jump(s, a) ELSE Advance(s, 2)

ExecJNE(s, a) == IF JneTaken(s.fl) THEN Jump(s, a) ELSE Advance(s, 2)

ExecJMP(s, a) == Jump(s, a)

ExecCMP(s, a, b) == Advance(alu(s, CMP, a, b), 3)

ExecMUL(s, a, b) == Advance(alu(s, MUL, a, b), 3)

\* ADD that also leaves the Equal flag set
AddSetsFlags(s, a, b) ==
    LET t == alu(s, ADD, a, b) IN
    IF t.status = "error" THEN t ELSE [t EXCEPT !.fl = FlagE, !.pc = t.pc + 3]

ExecADD(s, a, b) == Advance(alu(s, ADD, a, b), 3)

\* CALL that stores its own address, not the address after it
CallReturnsToCall(s, a) ==
    LET s1 == [s EXCEPT !.sp = s.sp - 1] IN
    IF ~IdxOK(s1.sp, RamSize) THEN Raise(s1, "IndexError")
    ELSE LET s2 == [s1 EXCEPT !.ram = ram_write(s1.ram, s1.sp, s1.pc),
                              !.acc = s1.acc \cup {s1.sp}] IN
         Jump(s2, a)

\* sp -= 1; ram[sp] = pc + 2; pc = reg[operand_a]
ExecCALL(s, a) ==
    LET s1 == [s EXCEPT !.sp = s.sp - 1] IN
    IF ~IdxOK(s1.sp, RamSize) THEN Raise(s1, "IndexError")
    ELSE LET s2 == [s1 EXCEPT !.ram = ram_write(s1.ram, s1.sp, s1.pc + 2),
                              !.acc = s1.acc \cup {s1.sp}] IN
         Jump(s2, a)

\* popped = ram[sp]; pc = popped; sp += 1
ExecRET(s) ==
    IF ~IdxOK(s.sp, RamSize) THEN Raise(s, "IndexError")
    ELSE [s EXCEPT !.pc = ram_read(s.ram, s.sp), !.sp = s.sp + 1,
                   !.acc = s.acc \cup {s.sp}]

\* sp -= 1; ram[sp] = reg[operand_a]; pc += 2
ExecPUSH(s, a) ==
    LET s1 == [s EXCEPT !.sp = s.sp - 1] IN
    IF ~IdxOK(a, NumReg) THEN Raise(s1, "IndexError")
    ELSE IF ~IdxOK(s1.sp, RamSize) THEN Raise(s1, "IndexError")
    ELSE [s1 EXCEPT !.ram = ram_write(s1.ram, s1.sp, reg_read(s1.reg, a)),
                    !.acc = s1.acc \cup {s1.sp},
                    !.pc = s1.pc + 2]

\* POP that increments sp before it reads the stack
PopIncrementsFirst(s, a) ==
    LET s1 == [s EXCEPT !.sp = s.sp + 1] IN
    IF ~IdxOK(s1.sp, RamSize) THEN Raise(s1, "IndexError")
    ELSE IF ~IdxOK(a, NumReg) THEN Raise(s1, "IndexError")
    ELSE [s1 EXCEPT !.reg = reg_write(s1.reg, a, ram_read(s1.ram, s1.sp)),
                    !.acc = s1.acc \cup {s1.sp},
                    !.pc = s1.pc + 2]

\* popped = ram[sp]; reg[operand_a] = popped; sp += 1; pc += 2
ExecPOP(s, a) ==
    IF ~IdxOK(s.sp, RamSize) THEN Raise(s, "IndexError")
    ELSE LET s1 == [s EXCEPT !.acc = s.acc \cup {s.sp}] IN
         IF ~IdxOK(a, NumReg) THEN Raise(s1, "IndexError")
         ELSE [s1 EXCEPT !.reg = reg_write(s1.reg, a, ram_read(s1.ram, s1.sp)),
                         !.sp = s1.sp + 1,
                         !.pc = s1.pc + 2]

\* LDI that keeps only the three low bits of the register operand
LdiMasksRegister(s, a, b) == [s EXCEPT !.reg = reg_write(s.reg, a % NumReg, b), !.pc = s.pc + 3]

\* LDI that leaves pc where it is
LdiStays(s, a, b) ==
    IF ~IdxOK(a, NumReg) THEN Raise(s, "IndexError")
    ELSE [s EXCEPT !.reg = reg_write(s.reg, a, b)]

\* reg[operand_a] = operand_b; pc += 3
ExecLDI(s, a, b) ==
    IF ~IdxOK(a, NumReg) THEN Raise(s, "IndexError")
    ELSE [s EXCEPT !.reg = reg_write(s.reg, a, b), !.pc = s.pc + 3]

\* PRN that prints the operand byte, not the register it names
PrnPrintsOperand(s, a) ==
    IF ~IdxOK(a, NumReg) THEN Raise(s, "IndexError")
    ELSE [s EXCEPT !.out = Append(s.out, Str(a)), !.pc = s.pc + 2]

\* PRN that replaces the output by its line
PrnOverwrites(s, a) ==
    IF ~IdxOK(a, NumReg) THEN Raise(s, "IndexError")
    ELSE [s EXCEPT !.out = <<Str(reg_read(s.reg, a))>>, !.pc = s.pc + 2]

\* print(reg[operand_a]); pc += 2
ExecPRN(s, a) ==
    IF ~IdxOK(a, NumReg) THEN Raise(s, "IndexError")
    ELSE [s EXCEPT !.out = Append(s.out, Str(reg_read(s.reg, a))), !.pc = s.pc + 2]

\* --------------------------------------------------------- program files
\* a memory image as the sequence of its 256 bytes, and the code placed in it
BlankImg == [i \in 1 .. RamSize |-> 0]

Put(img, base, code) ==
    [i \in 1 .. RamSize |->
        IF i - 1 >= base /\ i - 1 < base + Len(code) THEN code[i - base] ELSE img[i]]

\* the file of an image: a comment-only line, then one 8-character line per byte
FileOf(img) == <<<< >>>> \o [i \in 1 .. RamSize |-> Bin(img[i], 8)]

\* LDI R0,x; LDI R1,y; op R0,R1; PRN R0; HLT
ArithProgs ==
    {Put(BlankImg, 0, <<LDI, 0, x, LDI, 1, y, op, 0, 1, PRN, 0, HLT>>) :
        x \in Vals, y \in Vals, op \in {ADD, MUL}}

\* LDI R0,v; PRN R0; HLT, for every byte v
PrintProgs == {Put(BlankImg, 0, <<LDI, 0, v, PRN, 0, HLT>>) : v \in 0 .. (RamSize - 1)}

\* a compare followed by a jump to address 17, and jumps before any compare
CmpProgs ==
    {Put(BlankImg, 0, <<LDI, 0, x, LDI, 1, y, LDI, 2, 17, CMP, 0, 1, j, 2,
                        PRN, 0, HLT, PRN, 1, HLT>>) :
        x \in Vals, y \in Vals, j \in {JEQ, JNE, JMP}}
    \cup {Put(BlankImg, 0, <<LDI, 0, x, LDI, 1, y, CMP, 0, 1, CMP, 1, 0, CMP, 0, 0, HLT>>) :
        x \in Vals, y \in Vals}
    \cup {Put(BlankImg, 0, <<LDI, 2, 8, j, 2, HLT, 0, 0, PRN, 2, HLT>>) : j \in {JEQ, JNE}}

\* PUSH Ra; POP Rb at every distance from the first stack slot, InitSP - 1
StackBases == {8} \cup ((InitSP - 8) .. (InitSP + 2))

StackProgs ==
    {Put(Put(BlankImg, 0, <<LDI, 7, base, JMP, 7>>),
         base, <<LDI, ab[1], v, PUSH, ab[1], POP, ab[2], PRN, ab[2], HLT>>) :
        base \in StackBases, v \in Vals \cup {POP}, ab \in {<<0, 1>>, <<1, 0>>, <<3, 3>>}}
    \cup {Put(BlankImg, 0, <<LDI, 0, v, PUSH, 0, PUSH, 1, POP, 2, POP, 3, HLT>>) : v \in Vals}
    \cup {[i \in 1 .. RamSize |-> IF i <= 26 THEN (IF i % 2 = 1 THEN POP ELSE 0) ELSE 0]}

\* CALL R0 at p, with R0 = t and a RET stored at t
CallSites == {8, RET - 2, RamSize - 5, RamSize - 4, RamSize - 2}

CallTargets == {32, InitSP - 1, InitSP - 2, RamSize - 3, RamSize - 2, RamSize - 1}

CallProgs ==
    {Put(Put(Put(BlankImg, 0, <<LDI, 0, t, LDI, 7, p, JMP, 7>>),
             p, <<CALL, 0, PRN, 0, HLT>>), t, <<RET>>) :
        p \in CallSites, t \in CallTargets}

\* CALL R0 at RamSize - 8 with R0 = RamSize - 8: calls itself until the stack runs out
LoopProgs ==
    {Put(Put(BlankImg, 0, <<LDI, 0, RamSize - 8, JMP, 0>>), RamSize - 8, <<CALL, 0>>)}

\* HLT at h, followed by more instructions
HaltProgs ==
    {Put(Put(BlankImg, 0, <<LDI, 0, h, JMP, 0>>), h, <<HLT, PRN, 0, LDI, 0, 9>>) :
        h \in {5, RamSize - 3, RamSize - 2, RamSize - 1}}

\* register operands outside 0..7
BadRegProgs ==
    {Put(BlankImg, 0, <<LDI, 0, 7, op, r, HLT>>) :
        op \in {PRN, PUSH, POP, CALL, JMP, JEQ, JNE}, r \in {NumReg, 255}}
    \cup {Put(BlankImg, 0, <<CMP, 0, 0, JEQ, NumReg, HLT>>)}
    \cup {Put(BlankImg, 0, <<op, ab[1], ab[2], HLT>>) :
        op \in {LDI, ADD, MUL, CMP}, ab \in {<<NumReg, 0>>, <<0, NumReg>>}}

\* bytes run() has no branch for
UnknownProgs ==
    {BlankImg, Put(BlankImg, 0, <<IRET>>), Put(BlankImg, 0, <<LDI, 0, 1, 255>>)}

\* LDI R0,v; PRN R0; LDI R0,w; PRN R0; PRN R1; HLT
TwoPrintProgs ==
    {Put(BlankImg, 0, <<LDI, 0, v, PRN, 0, LDI, 0, w, PRN, 0, PRN, 1, HLT>>) :
        v \in Vals, w \in Vals}

\* a memory full of PRN R0, full of CMP R0,R0, and ADD R0,R1; PUSH R0; POP R2
StraightProgs ==
    {[i \in 1 .. RamSize |-> IF i % 2 = 1 THEN PRN ELSE 0],
     [i \in 1 .. RamSize |-> IF i % 3 = 1 THEN CMP ELSE 0]}
    \cup {Put(BlankImg, 0, <<LDI, 0, x, LDI, 1, y, ADD, 0, 1, PUSH, 0, POP, 2, PRN, 2, HLT>>) :
        x \in Vals, y \in Vals}

Programs == ArithProgs \cup PrintProgs \cup CmpProgs \cup StackProgs \cup CallProgs
            \cup LoopProgs \cup HaltProgs \cup BadRegProgs \cup UnknownProgs
            \cup TwoPrintProgs \cup StraightProgs

\* ------------------------------------------------------------- operations
\* CPU()
Init ==
    /\ ram = ZeroRam
    /\ reg = ZeroReg
    /\ pc = 0
    /\ fl = 0
    /\ sp = InitSP
    /\ out = << >>
    /\ status = "constructed"
    /\ err = "none"
    /\ acc = {}
    /\ last = NoCycle
    /\ last2 = NoCycle
    /\ done = [op \in Handled |-> 0]
    /\ loaded = ZeroRam

\* load(), on the file of one of the programs
Load ==
    /\ status = "constructed"
    /\ \E img \in Programs :
        LET lines == FileOf(img) IN
        /\ ram' = LoadLines(ram, lines)
        /\ loaded' = ram'
        \* ram[address] = v raises once address reaches 256
        /\ IF Len(SelectSeq(lines, IsInstruction)) > RamSize
           THEN status' = "error" /\ err' = "IndexError"
           ELSE status' = "loaded" /\ err' = err
    /\ UNCHANGED <<reg, pc, fl, sp, out, acc, last, last2, done>>

\* run() is entered: running = True
Run ==
    /\ status = "loaded"
    /\ status' = "running"
    /\ UNCHANGED <<ram, reg, pc, fl, sp, out, err, acc, last, last2, done, loaded>>

\* the byte the memory held at p when the cycle began (NoIR outside the memory)
Placed(r, p) == IF p \in 0 .. (RamSize - 1) THEN r[p] ELSE NoIR

\* the record of the cycle that takes the CPU to t
CycleRec(t, taken) ==
    [ir |-> IR, a |-> operand_a, b |-> operand_b, pc |-> pc, sp |-> sp, reg |-> reg,
     fl |-> fl, nextIR |-> Placed(ram, t.pc), nextA |-> Placed(ram, t.pc + 1),
     taken |-> taken, ok |-> t.status # "error"]

\* the cycle ends with the CPU as t
Commit(t, rec) ==
    /\ ram' = t.ram
    /\ reg' = t.reg
    /\ pc' = t.pc
    /\ fl' = t.fl
    /\ sp' = t.sp
    /\ out' = t.out
    /\ status' = t.status
    /\ err' = t.err
    /\ acc' = t.acc
    /\ last' = rec
    /\ last2' = last
    /\ done' = IF rec.ok /\ rec.ir \in Handled
               THEN [done EXCEPT ![rec.ir] = done[rec.ir] + 1]
               ELSE done
    /\ loaded' = loaded

Decoded(op) == status = "running" /\ FetchOK /\ IR = op

\* one of the three reads at pc, pc + 1, pc + 2 raises IndexError
FetchFail ==
    /\ status = "running"
    /\ ~FetchOK
    /\ Commit(Raise(Fetched, "IndexError"),
              [NoCycle EXCEPT !.pc = pc, !.sp = sp, !.reg = reg, !.fl = fl])

Step_HLT == Decoded(HLT) /\ Commit(ExecHLT(Fetched), CycleRec(ExecHLT(Fetched), FALSE))

Step_JEQ ==
    /\ Decoded(JEQ)
    /\ Commit(ExecJEQ(Fetched, operand_a), CycleRec(ExecJEQ(Fetched, operand_a), JeqTaken(fl)))

Step_JNE ==
    /\ Decoded(JNE)
    /\ Commit(ExecJNE(Fetched, operand_a), CycleRec(ExecJNE(Fetched, operand_a), JneTaken(fl)))

Step_JMP ==
    /\ Decoded(JMP)
    /\ Commit(ExecJMP(Fetched, operand_a), CycleRec(ExecJMP(Fetched, operand_a), TRUE))

Step_CMP ==
    /\ Decoded(CMP)
    /\ Commit(ExecCMP(Fetched, operand_a, operand_b),
              CycleRec(ExecCMP(Fetched, operand_a, operand_b), FALSE))

Step_CALL ==
    /\ Decoded(CALL)
    /\ Commit(ExecCALL(Fetched, operand_a), CycleRec(ExecCALL(Fetched, operand_a), TRUE))

Step_RET == Decoded(RET) /\ Commit(ExecRET(Fetched), CycleRec(ExecRET(Fetched), TRUE))

Step_PUSH ==
    /\ Decoded(PUSH)
    /\ Commit(ExecPUSH(Fetched, operand_a), CycleRec(ExecPUSH(Fetched, operand_a), FALSE))

Step_POP ==
    /\ Decoded(POP)
    /\ Commit(ExecPOP(Fetched, operand_a), CycleRec(ExecPOP(Fetched, operand_a), FALSE))

Step_LDI ==
    /\ Decoded(LDI)
    /\ Commit(ExecLDI(Fetched, operand_a, operand_b),
              CycleRec(ExecLDI(Fetched, operand_a, operand_b), FALSE))

Step_MUL ==
    /\ Decoded(MUL)
    /\ Commit(ExecMUL(Fetched, operand_a, operand_b),
              CycleRec(ExecMUL(Fetched, operand_a, operand_b), FALSE))

Step_ADD ==
    /\ Decoded(ADD)
    /\ Commit(ExecADD(Fetched, operand_a, operand_b),
              CycleRec(ExecADD(Fetched, operand_a, operand_b), FALSE))

Step_PRN ==
    /\ Decoded(PRN)
    /\ Commit(ExecPRN(Fetched, operand_a), CycleRec(ExecPRN(Fetched, operand_a), FALSE))

\* no branch of the chain matches: the loop goes round with nothing assigned
Step_Unknown ==
    /\ status = "running"
    /\ FetchOK
    /\ IR \notin Handled
    /\ Commit(Fetched, CycleRec(Fetched, FALSE))

Next ==
    \/ Load
    \/ Run
    \/ FetchFail
    \/ Step_HLT
    \/ Step_JEQ
    \/ Step_JNE
    \/ Step_JMP
    \/ Step_CMP
    \/ Step_CALL
    \/ Step_RET
    \/ Step_PUSH
    \/ Step_POP
    \/ Step_LDI
    \/ Step_MUL
    \/ Step_ADD
    \/ Step_PRN
    \/ Step_Unknown

Spec == Init /\ [][Next]_vars

\* ---------------------------------------------------------------- claims
pushes == done[PUSH] + done[CALL]

pops == done[POP] + done[RET]

\* the register value the cycle rec started with in register i
RegBefore(rec, i) == reg_read(rec.reg, i)

\* the memory cell an index denotes
Cell(i) == Idx(i, RamSize)

\* C1: when the byte fetched at PC is none of the defined opcodes, the run fails
\* with InvalidOpcode and stops; it never goes round the loop with the state
\* unchanged and still Running.
C1_UnknownOpcodeFails ==
    (last.ir # NoIR /\ last.ir \notin Handled) => (status = "error" /\ err = "InvalidOpcode")

\* the loaded image begins LDI R0,x; LDI R1,y; op R0,R1; PRN R0; HLT
IsArith(img, op) ==
    /\ img[0] = LDI /\ img[1] = 0 /\ img[2] \in 0 .. 255
    /\ img[3] = LDI /\ img[4] = 1 /\ img[5] \in 0 .. 255
    /\ img[6] = op /\ img[7] = 0 /\ img[8] = 1
    /\ img[9] = PRN /\ img[10] = 0
    /\ img[11] = HLT

\* C2: LDI R0,x; LDI R1,y; ADD R0,R1; PRN R0; HLT emits exactly (x + y) mod 256.
C2_AddEmitsSumMod256 ==
    (IsArith(loaded, ADD) /\ status = "halted") => out = <<Str((loaded[2] + loaded[5]) % 256)>>

\* C3: LDI R0,x; LDI R1,y; MUL R0,R1; PRN R0; HLT emits exactly (x * y) mod 256.
C3_MulEmitsProductMod256 ==
    (IsArith(loaded, MUL) /\ status = "halted") => out = <<Str((loaded[2] * loaded[5]) % 256)>>

\* C4: every memory address read or written lies in 0..255; an address outside
\* that range is a fatal error and never reaches a wrapped-around cell.
C4_AddressesInRange == acc \subseteq 0 .. (RamSize - 1)

\* C5: whenever the opcode at PC is HLT, for every PC in 0..255, the engine moves
\* to Halted in that cycle with nothing else changed, and once Halted nothing
\* changes any more.
C5_HltHalts ==
    [][/\ (status = "running" /\ pc \in 0 .. (RamSize - 1) /\ ram[pc] = HLT)
            => (status' = "halted" /\ UNCHANGED <<ram, reg, pc, fl, sp, out>>)
       /\ status = "halted" => UNCHANGED <<ram, reg, pc, fl, sp, out, status>>]_vars

\* C6: after any CMP a,b the flags hold exactly one of Equal, Less-than,
\* Greater-than, chosen by reg[a] and reg[b] alone; in every state FL is 0 (no
\* CMP executed yet) or one of the three single bits.
C6_FlagsExactlyOne ==
    /\ fl \in {0, FlagE, FlagL, FlagG}
    /\ (fl = 0) <=> (done[CMP] = 0)
    /\ (last.ir = CMP /\ last.ok) =>
        /\ (fl = FlagE) <=> (RegBefore(last, last.a) = RegBefore(last, last.b))
        /\ (fl = FlagL) <=> (RegBefore(last, last.a) < RegBefore(last, last.b))
        /\ (fl = FlagG) <=> (RegBefore(last, last.a) > RegBefore(last, last.b))

\* a CMP has just replaced a different flags value left by an earlier CMP
C6_Witness == last.ir = CMP /\ last.ok /\ last.fl # 0 /\ last.fl # fl

\* C7: for a CMP a,b immediately followed by JEQ r, the JEQ sets PC to reg[r]
\* if and only if reg[a] = reg[b] at the CMP; otherwise it advances PC by 2.
C7_CmpJeqBranchesIffEqual ==
    (last2.ir = CMP /\ last2.ok /\ last.ir = JEQ /\ last.ok) =>
        /\ last.taken <=> (RegBefore(last2, last2.a) = RegBefore(last2, last2.b))
        /\ last.taken => pc = RegBefore(last, last.a)
        /\ ~last.taken => pc = last.pc + 2

\* a JEQ right after a CMP of two equal registers has branched
C7_Witness ==
    /\ last2.ir = CMP /\ last2.ok /\ last.ir = JEQ /\ last.ok
    /\ RegBefore(last2, last2.a) = RegBefore(last2, last2.b)
    /\ pc = RegBefore(last, last.a) /\ pc # last.pc + 2

\* C8 as stated: PUSH a at p with POP b stored right after it (a # b) leaves
\* reg[b] = the value reg[a] had, reg[a] unchanged and SP as before the PUSH, for
\* every SP and every placement of the two instructions in memory.
C8_PushPopAsPlaced ==
    (/\ last2.ir = PUSH /\ last2.ok
     /\ last2.a \in 0 .. (NumReg - 1)
     /\ last2.nextIR = POP
     /\ last2.nextA \in (0 .. (NumReg - 1)) \ {last2.a}) =>
        /\ last.ok
        /\ reg[last2.nextA] = RegBefore(last2, last2.a)
        /\ reg[last2.a] = RegBefore(last2, last2.a)
        /\ sp = last2.sp

\* C8, amended: when PUSH a executes and the instruction executed next, as
\* fetched after the PUSH stored its value, is POP b with a # b, then reg[b] is
\* the value reg[a] had before the PUSH, reg[a] is unchanged and SP is as before
\* the PUSH.
C8_PushPopExecuted ==
    (/\ last2.ir = PUSH /\ last2.ok
     /\ last.ir = POP /\ last.ok
     /\ Idx(last.a, NumReg) # Idx(last2.a, NumReg)) =>
        /\ reg_read(reg, last.a) = RegBefore(last2, last2.a)
        /\ reg_read(reg, last2.a) = RegBefore(last2, last2.a)
        /\ sp = last2.sp

\* PUSH a; POP b has run with the stack slot on one of the POP's two bytes
C8_Witness ==
    /\ last2.ir = PUSH /\ last2.ok
    /\ last.ir = POP /\ last.ok
    /\ Idx(last.a, NumReg) # Idx(last2.a, NumReg)
    /\ Cell(last2.sp - 1) \in {last.pc, last.pc + 1}

\* C9 as stated: a CALL r at p whose target reg[r] holds a RET is followed by
\* that RET, after which PC = p + 2 and SP is as before the CALL, for every p,
\* every target and every SP.
C9_CallRetAsPlaced ==
    (last2.ir = CALL /\ last2.ok /\ last2.nextIR = RET) =>
        /\ last.ir = RET /\ last.ok
        /\ pc = last2.pc + 2
        /\ sp = last2.sp

\* C9, amended: when CALL r executes at p and the instruction executed next, as
\* fetched at the target after the CALL stored its return address, is RET, then
\* after the RET PC = p + 2 and SP is as before the CALL.
C9_CallRetExecuted ==
    (last2.ir = CALL /\ last2.ok /\ last.ir = RET /\ last.ok) =>
        /\ pc = last2.pc + 2
        /\ sp = last2.sp

\* CALL; RET has run with the return address stored on the target itself
C9_Witness ==
    /\ last2.ir = CALL /\ last2.ok /\ last.ir = RET /\ last.ok
    /\ Cell(last2.sp - 1) = last.pc

\* C10: SP is 0xF4 initially and in every state SP = 0xF4 - (PUSH and CALL
\* executed) + (POP and RET executed).
C10_SpCountsStackOps ==
    /\ (status = "constructed" => sp = InitSP)
    /\ sp = InitSP - pushes + pops

\* the opcodes whose first operand byte selects a register, and those whose
\* second does too
RegOps == {LDI, PRN, ADD, MUL, CMP, PUSH, POP, CALL, JMP, JEQ, JNE}

TwoRegOps == {ADD, MUL, CMP}

Registers == 0 .. (NumReg - 1)

\* the cycle rec used an operand byte outside 0..7 as a register selector
\* (JEQ and JNE use theirs only when they branch)
BadSelector(rec) ==
    /\ rec.ir \in RegOps
    /\ (rec.ir \in {JEQ, JNE}) => rec.taken
    /\ \/ rec.a \notin Registers
       \/ rec.ir \in TwoRegOps /\ rec.b \notin Registers

\* the cycle rec ended in a fatal error
Failed(rec) == ~rec.ok /\ rec # NoCycle

\* C11: an instruction whose register selector is outside 0..7 fails fatally,
\* no instruction executes after a failed one, and the register file never has
\* a register outside 0..7.
C11_BadRegisterIsFatal ==
    /\ BadSelector(last) => (Failed(last) /\ status = "error" /\ reg = last.reg)
    /\ ~Failed(last2)
    /\ Failed(last) => status = "error"
    /\ DOMAIN reg = Registers

\* a PUSH whose operand byte is 8 or more has ended the run
C11_Witness == last.ir = PUSH /\ last.a \notin Registers /\ status = "error"

\* the loaded image begins LDI R0,v; PRN R0; HLT
IsPrint(img) ==
    /\ img[0] = LDI /\ img[1] = 0 /\ img[2] \in 0 .. 255
    /\ img[3] = PRN /\ img[4] = 0
    /\ img[5] = HLT

DigitValue(c) == CHOOSE d \in 0 .. 9 : DigitChar[d + 1] = c

\* the number a line of decimal digits denotes
RECURSIVE ParseDec(_)
ParseDec(line) == IF Len(line) = 0 THEN 0
                  ELSE 10 * ParseDec(SubSeq(line, 1, Len(line) - 1)) + DigitValue(line[Len(line)])

\* C12: LDI R0,v; PRN R0; HLT loaded at address 0 emits exactly one line, which
\* holds v in decimal, and then reaches Halted: the run goes through PC = 0, 3,
\* 5 without an error and halts at 5 with that one line written.
C12_PrintProgramEmitsV ==
    IsPrint(loaded) =>
        /\ status # "error"
        /\ status = "running" =>
            \/ pc = 0 /\ out = << >>
            \/ pc = 3 /\ out = << >> /\ reg[0] = loaded[2]
            \/ pc = 5 /\ out = <<Str(loaded[2])>>
        /\ status = "halted" =>
            /\ pc = 5
            /\ Len(out) = 1
            /\ out[1] = Str(loaded[2])
            /\ ParseDec(out[1]) = loaded[2]
            /\ done[HLT] = 1 /\ done[PRN] = 1 /\ done[LDI] = 1

\* the program has halted after printing a three-digit value
C12_Witness == IsPrint(loaded) /\ status = "halted" /\ Len(out) = 1 /\ Len(out[1]) = 3

\* C13: the output is append-only: a PRN a that executes appends exactly one
\* line, the decimal of reg[a] at that moment, and no other step changes the
\* output.
C13_OutputAppendOnly ==
    [][IF status = "running" /\ FetchOK /\ IR = PRN /\ operand_a \in Registers
       THEN out' = Append(out, Str(reg[operand_a])) /\ ParseDec(out'[Len(out')]) = reg[operand_a]
       ELSE out' = out]_vars

\* a second PRN has appended its line after the first one's
C13_Witness ==
    /\ last.ir = PRN /\ last.ok
    /\ Len(out) = 2
    /\ out[2] = Str(RegBefore(last, last.a))
    /\ out[1] # out[2]

\* the Equal bit of a flags value
EqualSet(f) == f % 2 = 1

\* C14: JNE r sets PC to reg[r] exactly when the Equal flag is not set (also
\* with the initial flags 0, before any CMP) and otherwise advances PC by 2; in
\* every state exactly one of JEQ r and JNE r would branch.
C14_JneBranchesIffNotEqual ==
    /\ (last.ir = JNE /\ last.ok) =>
        /\ last.taken <=> ~EqualSet(last.fl)
        /\ ~EqualSet(last.fl) => pc = RegBefore(last, last.a)
        /\ EqualSet(last.fl) => pc = last.pc + 2
    /\ (last.ir = JEQ /\ last.ok) =>
        /\ EqualSet(last.fl) => pc = RegBefore(last, last.a)
        /\ ~EqualSet(last.fl) => pc = last.pc + 2
    /\ JeqTaken(fl) # JneTaken(fl)

\* a JNE has branched before any CMP was executed
C14_Witness ==
    /\ last.ir = JNE /\ last.ok
    /\ last.fl = 0 /\ done[CMP] = 0
    /\ pc = RegBefore(last, last.a) /\ pc # last.pc + 2

\* C15: the flags register is changed only by CMP: every step that executes
\* another instruction leaves FL unchanged.
C15_OnlyCmpChangesFlags ==
    [][(fl' # fl) => (status = "running" /\ FetchOK /\ IR = CMP)]_vars

\* an ADD has run after a CMP and the flags the CMP left are still there
C15_Witness == last.ir \in {ADD, JEQ, PRN} /\ last.ok /\ done[CMP] > 0 /\ fl # 0 /\ fl = last.fl

\* C16: every instruction that executes applies the PC policy of its opcode:
\* LDI, ADD, MUL, CMP add 3; PRN, PUSH, POP add 2; JEQ and JNE that do not
\* branch add 2; CALL, JMP and JEQ, JNE that branch set PC to reg[a]; RET sets
\* PC to mem[SP], read before SP is incremented.
C16_PcPolicy ==
    (last.ok /\ last.ir \in Handled) =>
        /\ last.ir \in {LDI, ADD, MUL, CMP} => pc = last.pc + 3
        /\ last.ir \in {PRN, PUSH, POP} => pc = last.pc + 2
        /\ (last.ir = JEQ /\ ~EqualSet(last.fl)) => pc = last.pc + 2
        /\ (last.ir = JNE /\ EqualSet(last.fl)) => pc = last.pc + 2
        /\ (last.ir = JEQ /\ EqualSet(last.fl)) => pc = RegBefore(last, last.a)
        /\ (last.ir = JNE /\ ~EqualSet(last.fl)) => pc = RegBefore(last, last.a)
        /\ last.ir \in {CALL, JMP} => pc = RegBefore(last, last.a)
        /\ last.ir = RET => (pc = ram[Cell(last.sp)] /\ sp = last.sp + 1)
        /\ last.ir = HLT => pc = last.pc

\* a RET has set PC from the stack cell SP named before the increment, and that
\* cell is not the one SP names now
C16_Witness ==
    /\ last.ir = RET /\ last.ok
    /\ pc = ram[Cell(last.sp)]
    /\ IdxOK(sp, RamSize)
    /\ pc # ram[Cell(sp)]

Bytes == 0 .. 255

\* C17: starting from a memory of bytes, every memory cell and every register
\* holds a value in 0..255 in every reachable state.
C17_CellsAndRegistersAreBytes ==
    (\A i \in DOMAIN loaded : loaded[i] \in Bytes) =>
        /\ \A i \in DOMAIN reg : reg[i] \in Bytes
        /\ \A i \in DOMAIN ram : ram[i] \in Bytes

\* C18: an instruction that fails fatally leaves SP, PC, the flags, every
\* register and every memory cell as they were before it.
C18_FailureLeavesStateUnchanged ==
    [][(status = "running" /\ status' = "error") => UNCHANGED <<ram, reg, pc, fl, sp>>]_vars

Jumps == {JMP, JEQ, JNE, CALL, RET}

StraightOps == Handled \ (Jumps \cup {HLT})

\* the cycles LDI, PRN, ADD, MUL, CMP, PUSH and POP have completed
StraightCycles ==
    done[LDI] + done[PRN] + done[ADD] + done[MUL] + done[CMP] + done[PUSH] + done[POP]

\* the run so far fetched only defined opcodes and no JMP, JEQ, JNE, CALL or RET
StraightRun ==
    /\ status \in {"running", "halted", "error"}
    /\ last.ir \in (Handled \ Jumps) \cup {NoIR}
    /\ \A op \in Jumps : done[op] = 0

\* C19 as stated: in a run of defined opcodes without JMP, JEQ, JNE, CALL or
\* RET, every cycle that does not halt strictly increases PC, and the run ends
\* Halted or in a fatal out-of-range fetch, after at most 256 cycles.
C19_StraightRunAsStated ==
    StraightRun =>
        /\ last.ir \in StraightOps => pc > last.pc
        /\ status = "error" => last.ir = NoIR
        /\ StraightCycles + 1 <= RamSize

\* C19, amended: in such a run every cycle that completes without a fatal error
\* and does not halt increases PC by 2 or 3, so PC is at least twice the number
\* of completed cycles and the run ends, Halted or in a fatal error, after at
\* most 256 cycles.
C19_StraightRunTerminates ==
    StraightRun =>
        /\ (last.ir \in StraightOps /\ last.ok) => pc \in {last.pc + 2, last.pc + 3}
        /\ (last.ir \in StraightOps /\ ~last.ok) => status = "error"
        /\ pc >= 2 * StraightCycles
        /\ status = "running" => (pc >= 0 /\ (FetchOK => pc + 2 < RamSize))
        /\ StraightCycles + 1 <= RamSize

\* a run of more than 100 straight-line cycles has run off the end of the memory
C19_Witness ==
    /\ StraightRun
    /\ status = "error" /\ last.ir = NoIR
    /\ StraightCycles > 100
    /\ pc > last2.pc

====
